---- MODULE Spec2Model ----
(***************************************************************************)
(* A model of invoiceSender: the invoice parsers (invoiceParsers.py) and   *)
(* the sender pipeline (invoiceSender.py).                                  *)
(*                                                                         *)
(* Texts are sequences of characters (one-character strings).  Regular     *)
(* expressions are matched by a backtracking matcher with the semantics of *)
(* Python's re module for the constructs the program uses: literals,       *)
(* greedy quantified character classes, one optional literal group, one    *)
(* capturing group and the $ anchor.                                       *)
(***************************************************************************)
EXTENDS Naturals, Integers, Sequences, FiniteSets, TLC

VARIABLES
    pc,                 \* position of the running operation
    text,               \* the document text handed to the parser
    fields,             \* how the text was written: the three labelled parts
    parser_name,        \* the strategy name (args.parser / get_parser's name)
    parser,             \* the parser get_parser returned
    info,               \* the extracted dict
    error,              \* the exception raised, if any
    AVAILABLE_PARSERS,  \* the registry, an insertion-ordered dict
    ncalls,             \* number of get_parser calls made
    order_number,       \* get_recipients' order number
    mapping,            \* the mapping file: missing, or its lines
    entries,            \* how the mapping file was written, line by line
    recipients,         \* get_recipients' result
    subject_template,   \* [mail] subject_template
    body_template,      \* [mail] body_template
    msg,                \* the composed message
    dry_run,            \* args.dry_run
    answer,             \* what input() returns at the confirmation prompt
    calls,              \* the stages main has invoked, in order
    sent,               \* number of messages the transport has accepted
    exit_code           \* the process's outcome

vars == <<pc, text, fields, parser_name, parser, info, error, AVAILABLE_PARSERS,
          ncalls, order_number, mapping, entries, recipients, subject_template,
          body_template, msg, dry_run, answer, calls, sent, exit_code>>

----------------------------------------------------------------------------
(* Characters *)

LF == "\n"

\* Python's \s and str.strip() whitespace, for the characters of the model
Space == {" ", "\t", "\n", "\r", "\f"}

Digit == {"0", "1", "2", "3", "4", "5", "6", "7", "8", "9"}

UpperChars == <<"A", "B", "C", "D", "E", "F", "G", "H", "I", "J", "K", "L", "M",
                "N", "O", "P", "Q", "R", "S", "T", "U", "V", "W", "X", "Y", "Z">>

LowerChars == <<"a", "b", "c", "d", "e", "f", "g", "h", "i", "j", "k", "l", "m",
                "n", "o", "p", "q", "r", "s", "t", "u", "v", "w", "x", "y", "z">>

Upper == {UpperChars[i] : i \in DOMAIN UpperChars}

Lower == {LowerChars[i] : i \in DOMAIN LowerChars}

\* str.lower() on one character
LowerChar(c) ==
    IF c \in Upper
    THEN LowerChars[CHOOSE i \in DOMAIN UpperChars : UpperChars[i] = c]
    ELSE c

\* str.upper() on one character
UpperChar(c) ==
    IF c \in Lower
    THEN UpperChars[CHOOSE i \in DOMAIN LowerChars : LowerChars[i] = c]
    ELSE c

\* str.lower()
StrLower(s) == [i \in DOMAIN s |-> LowerChar(s[i])]

RECURSIVE LStrip(_)
LStrip(s) ==
    IF s # <<>> /\ Head(s) \in Space THEN LStrip(Tail(s)) ELSE s

RECURSIVE RStrip(_)
RStrip(s) ==
    IF s # <<>> /\ s[Len(s)] \in Space
    THEN RStrip(SubSeq(s, 1, Len(s) - 1))
    ELSE s

\* str.strip()
Strip(s) == RStrip(LStrip(s))

\* str.replace(old, new) for one-character old and new
Replace(s, old, new) == [i \in DOMAIN s |-> IF s[i] = old THEN new ELSE s[i]]

\* str.startswith(prefix)
StartsWith(s, prefix) ==
    Len(prefix) <= Len(s) /\ SubSeq(s, 1, Len(prefix)) = prefix

\* whether lit occurs in s at position pos
LitAt(s, pos, lit) ==
    pos + Len(lit) - 1 <= Len(s) /\ SubSeq(s, pos, pos + Len(lit) - 1) = lit

RECURSIVE Concat(_)
Concat(ss) == IF ss = <<>> THEN <<>> ELSE Head(ss) \o Concat(Tail(ss))

\* sep.join(ss)
RECURSIVE Join(_, _)
Join(ss, sep) ==
    IF ss = <<>> THEN <<>>
    ELSE IF Len(ss) = 1 THEN ss[1]
    ELSE ss[1] \o sep \o Join(Tail(ss), sep)

\* all sequences over S of length at most n
SeqsUpTo(S, n) == UNION {[1..k -> S] : k \in 0..n}

----------------------------------------------------------------------------
(* Regular expressions: a pattern is a sequence of items *)

Lit(s) == <<[t |-> "lit", cs |-> {}, lo |-> 0, hi |-> 0, lit |-> s]>>

\* (?:s)?
Opt(s) == <<[t |-> "opt", cs |-> {}, lo |-> 0, hi |-> 0, lit |-> s]>>

\* [cs]{lo,hi}, greedy; hi = -1 for no upper limit
Rep(cs, lo, hi) == <<[t |-> "cls", cs |-> cs, lo |-> lo, hi |-> hi, lit |-> <<>>]>>

Star(cs) == Rep(cs, 0, -1)

Plus(cs) == Rep(cs, 1, -1)

Open == <<[t |-> "open", cs |-> {}, lo |-> 0, hi |-> 0, lit |-> <<>>]>>

Close == <<[t |-> "close", cs |-> {}, lo |-> 0, hi |-> 0, lit |-> <<>>]>>

\* $ : at the end, or just before a final line feed
EndAnchor == <<[t |-> "end", cs |-> {}, lo |-> 0, hi |-> 0, lit |-> <<>>]>>

NoMatch == [ok |-> FALSE, end |-> 0, gs |-> 0, ge |-> 0]

\* the number of characters of cs in s from pos on, at most hi
RECURSIVE RunLength(_, _, _, _)
RunLength(s, pos, cs, hi) ==
    IF hi = 0 \/ pos > Len(s) \/ s[pos] \notin cs THEN 0
    ELSE 1 + RunLength(s, pos + 1, cs, IF hi < 0 THEN hi ELSE hi - 1)

\* match items k.. of pat against s at pos; gs, ge: the group's span so far.
\* The first match in the backtracking order is the one returned.
RECURSIVE MatchFrom(_, _, _, _, _, _)
RECURSIVE TryCount(_, _, _, _, _, _, _)
MatchFrom(pat, k, s, pos, gs, ge) ==
    IF k > Len(pat) THEN [ok |-> TRUE, end |-> pos, gs |-> gs, ge |-> ge]
    ELSE LET it == pat[k] IN
         CASE it.t = "lit" ->
                IF LitAt(s, pos, it.lit)
                THEN MatchFrom(pat, k + 1, s, pos + Len(it.lit), gs, ge)
                ELSE NoMatch
           [] it.t = "opt" ->
                IF LitAt(s, pos, it.lit)
                THEN LET r == MatchFrom(pat, k + 1, s, pos + Len(it.lit), gs, ge)
                     IN  IF r.ok THEN r ELSE MatchFrom(pat, k + 1, s, pos, gs, ge)
                ELSE MatchFrom(pat, k + 1, s, pos, gs, ge)
           [] it.t = "cls" ->
                TryCount(pat, k, s, pos, gs, ge, RunLength(s, pos, it.cs, it.hi))
           [] it.t = "open" -> MatchFrom(pat, k + 1, s, pos, pos, ge)
           [] it.t = "close" -> MatchFrom(pat, k + 1, s, pos, gs, pos)
           [] it.t = "end" ->
                IF pos = Len(s) + 1 \/ (pos = Len(s) /\ s[pos] = LF)
                THEN MatchFrom(pat, k + 1, s, pos, gs, ge)
                ELSE NoMatch

\* greedy: try n repetitions of item k, then n - 1, ... down to its minimum
TryCount(pat, k, s, pos, gs, ge, n) ==
    IF n < pat[k].lo THEN NoMatch
    ELSE LET r == MatchFrom(pat, k + 1, s, pos + n, gs, ge)
         IN  IF r.ok THEN r ELSE TryCount(pat, k, s, pos, gs, ge, n - 1)

\* re.match(pat, s)
ReMatch(pat, s) == MatchFrom(pat, 1, s, 1, 0, 0)

RECURSIVE SearchFrom(_, _, _)
SearchFrom(pat, s, pos) ==
    IF pos > Len(s) + 1 THEN NoMatch
    ELSE LET r == MatchFrom(pat, 1, s, pos, 0, 0)
         IN  IF r.ok THEN r ELSE SearchFrom(pat, s, pos + 1)

\* re.search(pat, s): the leftmost match
ReSearch(pat, s) == SearchFrom(pat, s, 1)

\* m.group(1)
Group1(s, m) == SubSeq(s, m.gs, m.ge - 1)

----------------------------------------------------------------------------
(* Values *)

Err(exc, m) == [exc |-> exc, msg |-> m, detail |-> <<>>]

NoError == Err("none", "")

\* a dict with the three keys
Dict(inv, ord, ttc) ==
    [kind |-> "dict", invoice_number |-> inv, order_number |-> ord, total_ttc |-> ttc]

\* Python's None
None == [kind |-> "None", invoice_number |-> <<>>, order_number |-> <<>>, total_ttc |-> <<>>]

\* not computed yet
Unset == [kind |-> "unset", invoice_number |-> <<>>, order_number |-> <<>>, total_ttc |-> <<>>]

\* no message
NoMessage ==
    [kind |-> "None", From |-> <<>>, To |-> <<>>, Subject |-> <<>>, body |-> <<>>,
     attachment |-> <<>>]

Returned(v) == [raised |-> NoError, value |-> v]

Raised(e) == [raised |-> e, value |-> Unset]

----------------------------------------------------------------------------
(* invoiceParsers.py: DougsInvoiceParser *)

\* r"Facture n°\s*([0-9]{4}-[0-9]{2}-FAC\s*\d+)"
InvoicePattern ==
    Lit(<<"F", "a", "c", "t", "u", "r", "e", " ", "n", "°">>) \o Star(Space) \o Open
    \o Rep(Digit, 4, 4) \o Lit(<<"-">>) \o Rep(Digit, 2, 2) \o Lit(<<"-", "F", "A", "C">>)
    \o Star(Space) \o Plus(Digit) \o Close

\* r'Commande\s+([A-Z0-9\-]+)'
OrderPattern ==
    Lit(<<"C", "o", "m", "m", "a", "n", "d", "e">>) \o Plus(Space) \o Open
    \o Plus(Upper \cup Digit \cup {"-"}) \o Close

\* r'Total TTC\s*(?:à régler)?\s*([\d\s\.,]+)\s*€'
TtcPattern ==
    Lit(<<"T", "o", "t", "a", "l", " ", "T", "T", "C">>) \o Star(Space)
    \o Opt(<<"à", " ", "r", "é", "g", "l", "e", "r">>) \o Star(Space) \o Open
    \o Plus(Digit \cup Space \cup {".", ","}) \o Close \o Star(Space) \o Lit(<<"€">>)

\* a faulty variant: the captured span is only trimmed
NormalizeInvoice_NoReplace(captured) == Strip(captured)

\* invoice_match.group(1).replace("\n", " ").strip()
NormalizeInvoice(captured) == Strip(Replace(captured, LF, " "))

\* a faulty variant: the order number is looked for before the invoice number
extract_info_OrderFirst(t) ==
    LET invoice_match == ReSearch(InvoicePattern, t)
        order_match == ReSearch(OrderPattern, t)
        ttc_match == ReSearch(TtcPattern, t)
    IN  IF ~order_match.ok THEN Raised(Err("ValueError", "Order number not found."))
        ELSE IF ~invoice_match.ok THEN Raised(Err("ValueError", "Invoice number not found."))
        ELSE IF ~ttc_match.ok THEN Raised(Err("ValueError", "Total TTC not found."))
        ELSE Returned(Dict(NormalizeInvoice(Group1(t, invoice_match)),
                           Strip(Group1(t, order_match)),
                           Strip(Group1(t, ttc_match))))

\* DougsInvoiceParser.extract_info
extract_info(t) ==
    LET invoice_match == ReSearch(InvoicePattern, t)
        order_match == ReSearch(OrderPattern, t)
        ttc_match == ReSearch(TtcPattern, t)
    IN  IF ~invoice_match.ok THEN Raised(Err("ValueError", "Invoice number not found."))
        ELSE IF ~order_match.ok THEN Raised(Err("ValueError", "Order number not found."))
        ELSE IF ~ttc_match.ok THEN Raised(Err("ValueError", "Total TTC not found."))
        ELSE Returned(Dict(NormalizeInvoice(Group1(t, invoice_match)),
                           Strip(Group1(t, order_match)),
                           Strip(Group1(t, ttc_match))))

\* AlternateInvoiceParser.extract_info: the body is pass
alternate_extract_info(t) == Returned(None)

----------------------------------------------------------------------------
(* invoiceParsers.py: the registry *)

DougsName == <<"d", "o", "u", "g", "s">>

AlternateName == <<"a", "l", "t", "e", "r", "n", "a", "t", "e">>

\* the dict comprehension over [DougsInvoiceParser, AlternateInvoiceParser],
\* keyed by each class's name(), in insertion order
RegisteredParsers ==
    <<[key |-> DougsName, cls |-> "DougsInvoiceParser"],
      [key |-> AlternateName, cls |-> "AlternateInvoiceParser"]>>

\* a parser name: None, or a string
NoName == [is_none |-> TRUE, s |-> <<>>]

Name(s) == [is_none |-> FALSE, s |-> s]

\* dict.get(k): the class, or "None"
DictGet(d, k) ==
    IF \E i \in DOMAIN d : d[i].key = k
    THEN d[CHOOSE i \in DOMAIN d : d[i].key = k].cls
    ELSE "None"

\* ", ".join(d.keys())
Available(d) == Join([i \in DOMAIN d |-> d[i].key], <<",", " ">>)

UnknownParser(name, d) ==
    [exc |-> "ValueError", msg |-> "Unknown parser", detail |-> <<name, Available(d)>>]

ReturnedParser(cls) == [raised |-> NoError, value |-> cls]

RaisedParser(e) == [raised |-> e, value |-> "None"]

\* a faulty variant: the name is looked up as written
get_parser_CaseSensitive(name, d) ==
    IF name.is_none THEN ReturnedParser("DougsInvoiceParser")
    ELSE LET parser_class == DictGet(d, name.s)
         IN  IF parser_class = "None"
             THEN RaisedParser(UnknownParser(name.s, d))
             ELSE ReturnedParser(parser_class)

\* get_parser
get_parser(name, d) ==
    IF name.is_none THEN ReturnedParser("DougsInvoiceParser")
    ELSE LET parser_class == DictGet(d, StrLower(name.s))
         IN  IF parser_class = "None"
             THEN RaisedParser(UnknownParser(name.s, d))
             ELSE ReturnedParser(parser_class)

\* extract_invoice_info
extract_invoice_info(t, name, d) ==
    LET p == get_parser(name, d)
    IN  IF p.raised # NoError THEN Raised(p.raised)
        ELSE IF p.value = "DougsInvoiceParser" THEN extract_info(t)
        ELSE alternate_extract_info(t)

----------------------------------------------------------------------------
(* Document texts *)

\* longest whitespace run written between -FAC and the numeric suffix
MaxGap == 2

GapChars == {" ", "\n", "\r"}

InvoiceLabel == <<"F", "a", "c", "t", "u", "r", "e", " ", "n", "°">>

InvoiceStem == <<"2", "0", "2", "4", "-", "0", "1", "-", "F", "A", "C">>

\* an invoice-number part: absent, written with a two-digit year, or written as
\* label, whitespace, 2024-01-FAC, a whitespace gap and the numeric suffix
InvoiceFields ==
    {[kind |-> "absent", ws |-> <<>>, gap |-> <<>>, digits |-> <<>>],
     [kind |-> "malformed", ws |-> <<>>, gap |-> <<>>, digits |-> <<>>]}
    \cup
    [kind : {"ok"}, ws : {<<>>, <<" ">>, <<"\n">>}, gap : SeqsUpTo(GapChars, MaxGap),
     digits : {<<"0", "0", "0", "4", "2">>, <<"7">>}]

RenderInvoice(f) ==
    CASE f.kind = "absent" -> <<>>
      [] f.kind = "malformed" ->
            InvoiceLabel \o <<" ", "2", "4", "-", "0", "1", "-", "F", "A", "C", " ", "7">>
      [] f.kind = "ok" -> InvoiceLabel \o f.ws \o InvoiceStem \o f.gap \o f.digits

\* an order-number part: ok says whether a well-formed labelled order number
\* was written, value is that number
OrderFields ==
    {[ok |-> FALSE, chars |-> <<>>, value |-> <<>>],
     [ok |-> TRUE, value |-> <<"O", "R", "D", "-", "9">>,
      chars |-> <<"C", "o", "m", "m", "a", "n", "d", "e", " ", "O", "R", "D", "-", "9">>],
     [ok |-> TRUE, value |-> <<"A", "1">>,
      chars |-> <<"C", "o", "m", "m", "a", "n", "d", "e", "\n", " ", "A", "1">>],
     [ok |-> FALSE, value |-> <<>>,
      chars |-> <<"C", "o", "m", "m", "a", "n", "d", "e", " ", "o", "r", "d">>],
     [ok |-> FALSE, value |-> <<>>,
      chars |-> <<"C", "o", "m", "m", "a", "n", "d", "e", ":", "O", "R", "D", "-", "9">>]}

TtcLabel == <<"T", "o", "t", "a", "l", " ", "T", "T", "C">>

Qualifier == <<"à", " ", "r", "é", "g", "l", "e", "r">>

\* a total part: ok says whether a labelled amount was written, value is it
TtcFields ==
    {[ok |-> FALSE, chars |-> <<>>, value |-> <<>>],
     [ok |-> TRUE, value |-> <<"1", "2", "3", ",", "4", "5">>,
      chars |-> TtcLabel \o <<" ">> \o Qualifier \o <<" ", "1", "2", "3", ",", "4", "5", " ", "€">>],
     [ok |-> TRUE, value |-> <<"1", " ", "2", "3", "4", ".", "5", "0">>,
      chars |-> TtcLabel \o <<" ", "1", " ", "2", "3", "4", ".", "5", "0", "\n", "€">>],
     [ok |-> FALSE, value |-> <<>>, chars |-> TtcLabel \o <<" ", " ", "€">>],
     [ok |-> FALSE, value |-> <<>>, chars |-> TtcLabel \o <<" ">> \o Qualifier \o <<" ", "€">>],
     [ok |-> FALSE, value |-> <<>>, chars |-> TtcLabel \o <<"€">>],
     [ok |-> FALSE, value |-> <<>>, chars |-> TtcLabel \o <<" ", "1", "2", ".", "5", "0">>]}

Layouts == {"invoice first", "total first"}

Documents == [inv : InvoiceFields, ord : OrderFields, ttc : TtcFields, layout : Layouts]

\* the document text: a heading line, then the parts, one per line
RenderText(f) ==
    LET parts == IF f.layout = "invoice first"
                 THEN <<RenderInvoice(f.inv), f.ord.chars, f.ttc.chars>>
                 ELSE <<f.ttc.chars, f.ord.chars, RenderInvoice(f.inv)>>
    IN  Join(<<<<"A", "C", "M", "E">>>> \o SelectSeq(parts, LAMBDA p : p # <<>>), <<"\n">>)

NoDocument == [inv |-> CHOOSE f \in InvoiceFields : f.kind = "absent",
               ord |-> CHOOSE f \in OrderFields : f.chars = <<>>,
               ttc |-> CHOOSE f \in TtcFields : f.chars = <<>>,
               layout |-> "invoice first"]

----------------------------------------------------------------------------
(* parse: extract_invoice_info on every document, with the default strategy *)

registryVars == <<AVAILABLE_PARSERS, ncalls, parser>>

recipientVars == <<order_number, mapping, entries, recipients>>

composeVars == <<subject_template, body_template, msg>>

mainVars == <<dry_run, answer, calls, sent, exit_code>>

InitParse ==
    /\ pc = "call"
    /\ fields \in Documents
    /\ text = RenderText(fields)
    /\ parser_name = NoName
    /\ parser = "None"
    /\ info = Unset
    /\ error = NoError
    /\ AVAILABLE_PARSERS = RegisteredParsers
    /\ ncalls = 0
    /\ order_number = <<>>
    /\ mapping = [exists |-> FALSE, lines |-> <<>>]
    /\ entries = <<>>
    /\ recipients = <<>>
    /\ subject_template = <<>>
    /\ body_template = <<>>
    /\ msg = NoMessage
    /\ dry_run = FALSE
    /\ answer = <<>>
    /\ calls = <<>>
    /\ sent = 0
    /\ exit_code = -1

\* one call of extract_invoice_info(text, parser_name)
ExtractInvoiceInfo ==
    /\ pc = "call"
    /\ LET r == extract_invoice_info(text, parser_name, AVAILABLE_PARSERS)
       IN  /\ info' = r.value
           /\ error' = r.raised
    /\ pc' = "return"
    /\ UNCHANGED <<text, fields, parser_name>>
    /\ UNCHANGED <<registryVars, recipientVars, composeVars, mainVars>>

NextParse == ExtractInvoiceInfo

SpecParse == InitParse /\ [][NextParse]_vars

InvoiceErr == Err("ValueError", "Invoice number not found.")

OrderErr == Err("ValueError", "Order number not found.")

TtcErr == Err("ValueError", "Total TTC not found.")

\* C1: with the default strategy the fields are checked in the order invoice
\* number, order number, total: a document without an invoice number fails
\* with the invoice-number error whatever else it holds, one with an invoice
\* number and no order number fails with the order-number error, and the
\* total error is raised only when the first two are there and the amount is not.
C1_FirstMissingFieldNamed ==
    pc = "return" =>
        /\ fields.inv.kind # "ok" => error = InvoiceErr
        /\ fields.inv.kind = "ok" /\ ~fields.ord.ok => error = OrderErr
        /\ error = TtcErr => fields.inv.kind = "ok" /\ fields.ord.ok /\ ~fields.ttc.ok
        /\ fields.inv.kind = "ok" /\ fields.ord.ok /\ fields.ttc.ok => error = NoError

C1_Witness ==
    /\ pc = "return"
    /\ fields.inv.kind # "ok" /\ ~fields.ord.ok /\ ~fields.ttc.ok
    /\ fields.ord.chars # <<>> /\ fields.ttc.chars # <<>>
    /\ error = InvoiceErr

\* C2: whenever the default strategy returns a record, its three fields are
\* non-empty strings.
C2_RecordFullyPopulated ==
    pc = "return" /\ info.kind = "dict" =>
        /\ info.invoice_number # <<>>
        /\ info.order_number # <<>>
        /\ info.total_ttc # <<>>

----------------------------------------------------------------------------
(* invoiceSender.py: validate_email, get_recipients *)

Alnum == Lower \cup Upper \cup Digit

\* r'^[a-zA-Z0-9._%+-]+@[a-zA-Z0-9.-]+\.[a-zA-Z]{2,}$', used with re.match
EmailPattern ==
    Plus(Alnum \cup {".", "_", "%", "+", "-"}) \o Lit(<<"@">>)
    \o Plus(Alnum \cup {".", "-"}) \o Lit(<<".">>) \o Rep(Lower \cup Upper, 2, -1)
    \o EndAnchor

\* validate_email
validate_email(email) == ReMatch(EmailPattern, email).ok

\* position of the first c in s, or 0
RECURSIVE IndexOf(_, _, _)
IndexOf(s, c, i) ==
    IF i > Len(s) THEN 0 ELSE IF s[i] = c THEN i ELSE IndexOf(s, c, i + 1)

\* s.split(c)
RECURSIVE Split(_, _)
Split(s, c) ==
    LET i == IndexOf(s, c, 1)
    IN  IF i = 0 THEN <<s>>
        ELSE <<SubSeq(s, 1, i - 1)>> \o Split(SubSeq(s, i + 1, Len(s)), c)

\* line.split(":", 1)[1], for a line that holds a colon
AfterColon(line) == SubSeq(line, IndexOf(line, ":", 1) + 1, Len(line))

\* the inner loop: the trimmed candidates that are non-empty and valid
RECURSIVE ValidEmails(_)
ValidEmails(cands) ==
    IF cands = <<>> THEN <<>>
    ELSE LET email == Strip(Head(cands))
         IN  (IF email # <<>> /\ validate_email(email) THEN <<email>> ELSE <<>>)
             \o ValidEmails(Tail(cands))

\* a faulty variant: the loop has no break, every matching line contributes
RECURSIVE ScanLines_NoBreak(_, _, _)
ScanLines_NoBreak(lines, i, order) ==
    IF i > Len(lines) THEN <<>>
    ELSE LET line == Strip(lines[i])
         IN  IF line = <<>> \/ StartsWith(line, <<"#">>)
             THEN ScanLines_NoBreak(lines, i + 1, order)
             ELSE IF StartsWith(line, order \o <<":">>)
             THEN ValidEmails(Split(AfterColon(line), ","))
                  \o ScanLines_NoBreak(lines, i + 1, order)
             ELSE ScanLines_NoBreak(lines, i + 1, order)

\* the loop over the file's lines, from line i on: the recipients collected
RECURSIVE ScanLines(_, _, _)
ScanLines(lines, i, order) ==
    IF i > Len(lines) THEN <<>>
    ELSE LET line == Strip(lines[i])
         IN  IF line = <<>> \/ StartsWith(line, <<"#">>)
             THEN ScanLines(lines, i + 1, order)
             ELSE IF StartsWith(line, order \o <<":">>)
             THEN ValidEmails(Split(AfterColon(line), ","))
             ELSE ScanLines(lines, i + 1, order)

MappingMissingErr == Err("ValueError", "Mapping file not found")

NoRecipientsErr(order) ==
    [exc |-> "ValueError", msg |-> "No valid recipients found for order", detail |-> order]

ReturnedList(l) == [raised |-> NoError, value |-> l]

RaisedList(e) == [raised |-> e, value |-> <<>>]

\* get_recipients
get_recipients(order, mapping_file) ==
    IF ~mapping_file.exists THEN RaisedList(MappingMissingErr)
    ELSE LET found == ScanLines(mapping_file.lines, 1, order)
         IN  IF found = <<>> THEN RaisedList(NoRecipientsErr(order))
             ELSE ReturnedList(found)

----------------------------------------------------------------------------
(* Mapping files *)

\* most lines a mapping file is given
MaxLines == 2

GoodA == [s |-> <<"a", "@", "b", ".", "c", "o", "m">>, valid |-> TRUE]

GoodC == [s |-> <<"c", "@", "d", ".", "o", "r", "g">>, valid |-> TRUE]

BadEmail == [s |-> <<"b", "a", "d", "-", "e", "m", "a", "i", "l">>, valid |-> FALSE]

NoTld == [s |-> <<"x", "@", "y">>, valid |-> FALSE]

Nothing == [s |-> <<>>, valid |-> FALSE]

\* the candidate lists written after a key, each with the way it is spaced
CandidateLists ==
    {[cands |-> <<>>, spaced |-> FALSE],
     [cands |-> <<GoodA>>, spaced |-> FALSE],
     [cands |-> <<BadEmail>>, spaced |-> TRUE],
     [cands |-> <<GoodA, BadEmail, GoodC>>, spaced |-> TRUE],
     [cands |-> <<GoodA, GoodA>>, spaced |-> TRUE],
     [cands |-> <<GoodC, GoodA, GoodC>>, spaced |-> FALSE],
     [cands |-> <<BadEmail, NoTld>>, spaced |-> FALSE],
     [cands |-> <<GoodC, Nothing, GoodA>>, spaced |-> TRUE]}

Ord9 == <<"O", "R", "D", "-", "9">>

Ord90 == <<"O", "R", "D", "-", "9", "0">>

\* a line of the file: a key with its candidates, a comment, or a blank line
MappingEntries ==
    [kind : {"entry"}, key : {Ord9, Ord90}, list : CandidateLists]
    \cup [kind : {"comment", "blank"}, key : {<<>>}, list : {[cands |-> <<>>, spaced |-> FALSE]}]

\* the line as the file holds it, its line feed included
RenderLine(e) ==
    CASE e.kind = "blank" -> <<" ", "\n">>
      [] e.kind = "comment" ->
            <<" ", "#", "O", "R", "D", "-", "9", ":", "c", "@", "d", ".", "o", "r", "g", "\n">>
      [] e.kind = "entry" ->
            IF e.list.spaced
            THEN e.key \o <<":", " ">>
                 \o Join([i \in DOMAIN e.list.cands |-> e.list.cands[i].s], <<",", " ">>)
                 \o <<" ", "\n">>
            ELSE e.key \o <<":">>
                 \o Join([i \in DOMAIN e.list.cands |-> e.list.cands[i].s], <<",">>)
                 \o <<"\n">>

MappingFile(es) == [exists |-> TRUE, lines |-> [i \in DOMAIN es |-> RenderLine(es[i])]]

MissingFile == [exists |-> FALSE, lines |-> <<>>]

\* the addresses of a line that were written well-formed, in order
RECURSIVE WrittenValid(_)
WrittenValid(cands) ==
    IF cands = <<>> THEN <<>>
    ELSE (IF Head(cands).valid THEN <<Head(cands).s>> ELSE <<>>) \o WrittenValid(Tail(cands))

\* s without the later repetitions of its elements
RECURSIVE RemoveDuplicates(_)
RemoveDuplicates(s) ==
    IF s = <<>> THEN <<>>
    ELSE LET front == RemoveDuplicates(SubSeq(s, 1, Len(s) - 1))
             last == s[Len(s)]
         IN  IF \E i \in DOMAIN front : front[i] = last THEN front ELSE Append(front, last)

\* the first line written for the order, or 0
FirstEntryFor(es, order) ==
    IF \E i \in DOMAIN es : es[i].kind = "entry" /\ es[i].key = order
    THEN CHOOSE i \in DOMAIN es :
            /\ es[i].kind = "entry" /\ es[i].key = order
            /\ \A j \in 1..(i - 1) : ~(es[j].kind = "entry" /\ es[j].key = order)
    ELSE 0

----------------------------------------------------------------------------
(* resolve_recipients: get_recipients on every order and mapping file *)

parseVars == <<text, fields, parser_name, info>>

InitRecipients ==
    /\ pc = "call"
    /\ order_number \in {Ord9, Ord90}
    /\ \/ /\ entries \in SeqsUpTo(MappingEntries, MaxLines)
          /\ mapping = MappingFile(entries)
       \/ /\ entries = <<>>
          /\ mapping = MissingFile
    /\ recipients = <<>>
    /\ error = NoError
    /\ text = <<>>
    /\ fields = NoDocument
    /\ parser_name = NoName
    /\ parser = "None"
    /\ info = Unset
    /\ AVAILABLE_PARSERS = RegisteredParsers
    /\ ncalls = 0
    /\ subject_template = <<>>
    /\ body_template = <<>>
    /\ msg = NoMessage
    /\ dry_run = FALSE
    /\ answer = <<>>
    /\ calls = <<>>
    /\ sent = 0
    /\ exit_code = -1

\* one call of get_recipients(order_number, mapping)
GetRecipients ==
    /\ pc = "call"
    /\ LET r == get_recipients(order_number, mapping)
       IN  /\ recipients' = r.value
           /\ error' = r.raised
    /\ pc' = "return"
    /\ UNCHANGED <<order_number, mapping, entries>>
    /\ UNCHANGED <<parseVars, registryVars, composeVars, mainVars>>

NextRecipients == GetRecipients

SpecRecipients == InitRecipients /\ [][NextRecipients]_vars

\* C3: when get_recipients succeeds, its result is the well-formed candidates
\* of the matching line, in the order written, each address once.
C3_ValidOrderedDeduplicated ==
    pc = "return" /\ error = NoError =>
        /\ FirstEntryFor(entries, order_number) # 0
        /\ recipients =
               RemoveDuplicates(
                   WrittenValid(entries[FirstEntryFor(entries, order_number)].list.cands))

\* C4: only the first line written for the order contributes; the result is
\* never empty; the call fails with the no-recipients error when no line is
\* written for the order and when the first such line holds no valid address,
\* whatever later lines for the same order hold.
C4_FirstMatchingLineOnly ==
    pc = "return" /\ mapping.exists =>
        LET m == FirstEntryFor(entries, order_number)
            valid == IF m = 0 THEN <<>> ELSE WrittenValid(entries[m].list.cands)
        IN  /\ error = NoError => recipients # <<>> /\ recipients = valid
            /\ valid = <<>> => error = NoRecipientsErr(order_number) /\ recipients = <<>>
            /\ error \in {NoError, NoRecipientsErr(order_number)}

C4_Witness ==
    /\ pc = "return"
    /\ mapping.exists
    /\ LET m == FirstEntryFor(entries, order_number)
       IN  /\ m # 0
           /\ WrittenValid(entries[m].list.cands) = <<>>
           /\ \E j \in (m + 1)..Len(entries) :
                 /\ entries[j].kind = "entry" /\ entries[j].key = order_number
                 /\ WrittenValid(entries[j].list.cands) # <<>>
    /\ error = NoRecipientsErr(order_number)
    /\ recipients = <<>>

----------------------------------------------------------------------------
(* resolve: get_parser called again and again on every kind of name *)

\* most get_parser calls in one run
MaxCalls == 2

\* s with any of its letters in upper case
CaseVariants(s) ==
    {[i \in DOMAIN s |-> IF i \in U THEN UpperChar(s[i]) ELSE s[i]] : U \in SUBSET DOMAIN s}

UnregisteredNames ==
    {<<>>, <<"d", "o", "u", "g">>, <<"d", "o", "u", "g", "s", " ">>, <<"o", "t", "h", "e", "r">>,
     <<"D", "o", "u", "g", "s", "I", "n", "v", "o", "i", "c", "e", "P", "a", "r", "s", "e", "r">>}

ParserNames ==
    {NoName}
    \cup {Name(s) : s \in CaseVariants(DougsName) \cup CaseVariants(AlternateName)
                         \cup UnregisteredNames}

InitRegistry ==
    /\ pc = "idle"
    /\ AVAILABLE_PARSERS = RegisteredParsers
    /\ ncalls = 0
    /\ parser_name = NoName
    /\ parser = "None"
    /\ error = NoError
    /\ text = <<>>
    /\ fields = NoDocument
    /\ info = Unset
    /\ order_number = <<>>
    /\ mapping = MissingFile
    /\ entries = <<>>
    /\ recipients = <<>>
    /\ subject_template = <<>>
    /\ body_template = <<>>
    /\ msg = NoMessage
    /\ dry_run = FALSE
    /\ answer = <<>>
    /\ calls = <<>>
    /\ sent = 0
    /\ exit_code = -1

\* one call of get_parser(name); the function only reads the registry
GetParser ==
    /\ ncalls < MaxCalls
    /\ \E name \in ParserNames :
          LET r == get_parser(name, AVAILABLE_PARSERS)
          IN  /\ parser_name' = name
              /\ parser' = r.value
              /\ error' = r.raised
    /\ ncalls' = ncalls + 1
    /\ pc' = "return"
    /\ UNCHANGED <<AVAILABLE_PARSERS, text, fields, info>>
    /\ UNCHANGED <<recipientVars, composeVars, mainVars>>

NextRegistry == GetParser

SpecRegistry == InitRegistry /\ [][NextRegistry]_vars

\* C8: a registered name in any letter case gives its parser, None gives the
\* dougs parser on every call, any other name fails with the unknown-parser
\* error that lists the registered names in registration order, and the
\* registry is the same after any number of calls.
C8_RegistryLookup ==
    /\ AVAILABLE_PARSERS = RegisteredParsers
    /\ pc = "return" =>
          IF parser_name.is_none
          THEN parser = "DougsInvoiceParser" /\ error = NoError
          ELSE IF parser_name.s \in CaseVariants(DougsName)
          THEN parser = "DougsInvoiceParser" /\ error = NoError
          ELSE IF parser_name.s \in CaseVariants(AlternateName)
          THEN parser = "AlternateInvoiceParser" /\ error = NoError
          ELSE /\ parser = "None"
               /\ error.exc = "ValueError"
               /\ error.msg = "Unknown parser"
               /\ error.detail =
                     <<parser_name.s,
                       <<"d", "o", "u", "g", "s", ",", " ",
                         "a", "l", "t", "e", "r", "n", "a", "t", "e">>>>

C8_Witness ==
    /\ pc = "return"
    /\ ncalls = MaxCalls
    /\ parser_name = Name(<<"A", "l", "t", "e", "R", "N", "a", "t", "E">>)
    /\ parser = "AlternateInvoiceParser"

----------------------------------------------------------------------------
(* invoiceSender.py: create_email_message *)

\* a template is a sequence of pieces: literal text, a named replacement
\* field {name}, or the unnamed field {}
TextPiece(chars) == [k |-> "text", name |-> "", chars |-> chars]

FieldPiece(name) == [k |-> "field", name |-> name, chars |-> <<>>]

AutoPiece == [k |-> "auto", name |-> "", chars |-> <<>>]

ReturnedStr(v) == [raised |-> NoError, value |-> v]

RaisedStr(e) == [raised |-> e, value |-> <<>>]

\* str.format(**kwargs) with keyword arguments only: kwargs maps the names
\* passed to their values.  A name that was not passed raises KeyError, the
\* unnamed field raises IndexError, at the first such field.
RECURSIVE Format(_, _)
Format(template, kwargs) ==
    IF template = <<>> THEN ReturnedStr(<<>>)
    ELSE LET piece == Head(template)
             rest == Format(Tail(template), kwargs)
         IN  CASE piece.k = "text" ->
                    IF rest.raised = NoError
                    THEN ReturnedStr(piece.chars \o rest.value) ELSE rest
               [] piece.k = "auto" -> RaisedStr(Err("IndexError", ""))
               [] piece.k = "field" ->
                    IF piece.name \notin DOMAIN kwargs
                    THEN RaisedStr(Err("KeyError", piece.name))
                    ELSE IF rest.raised = NoError
                    THEN ReturnedStr(kwargs[piece.name] \o rest.value) ELSE rest

ReturnedMsg(m) == [raised |-> NoError, value |-> m]

RaisedMsg(e) == [raised |-> e, value |-> NoMessage]

\* a faulty variant: the subject is formatted with the three fields, like the body
SubjectArgs_AllFields(i) ==
    [n \in {"invoice_number", "order_number", "total_ttc"} |->
        CASE n = "invoice_number" -> i.invoice_number
          [] n = "order_number" -> i.order_number
          [] n = "total_ttc" -> i.total_ttc]

\* the keyword arguments of the subject's format call
SubjectArgs(i) == [n \in {"invoice_number"} |-> i.invoice_number]

\* the keyword arguments of the body's format call
BodyArgs(i) ==
    [n \in {"invoice_number", "order_number", "total_ttc"} |->
        CASE n = "invoice_number" -> i.invoice_number
          [] n = "order_number" -> i.order_number
          [] n = "total_ttc" -> i.total_ttc]

\* create_email_message; pdf: whether the file can be opened, and its basename
create_email_message(i, sender, subject_tpl, body_tpl, to, pdf) ==
    LET subject == Format(subject_tpl, SubjectArgs(i))
        body == Format(body_tpl, BodyArgs(i))
    IN  IF subject.raised # NoError THEN RaisedMsg(subject.raised)
        ELSE IF body.raised # NoError THEN RaisedMsg(body.raised)
        ELSE IF ~pdf.exists THEN RaisedMsg(Err("FileNotFoundError", ""))
        ELSE ReturnedMsg([kind |-> "MIMEMultipart", From |-> sender,
                          To |-> Join(to, <<",", " ">>), Subject |-> subject.value,
                          body |-> body.value, attachment |-> pdf.basename])

----------------------------------------------------------------------------
(* compose: create_email_message on every pair of templates *)

\* most pieces a template is given
MaxPieces == 2

\* the names templates are written with: the three fields of the record (the
\* total amount is total_ttc) and one that is none of them
FieldNames == {"invoice_number", "order_number", "total_ttc", "customer"}

TemplatePieces ==
    {TextPiece(<<"F", "a", "c", "t", "u", "r", "e", " ">>), AutoPiece}
    \cup {FieldPiece(n) : n \in FieldNames}

Templates == SeqsUpTo(TemplatePieces, MaxPieces)

\* the names of a template's named fields
NamesOf(template) ==
    {template[i].name : i \in {j \in DOMAIN template : template[j].k = "field"}}

HasAuto(template) == \E i \in DOMAIN template : template[i].k = "auto"

SampleInfo ==
    Dict(InvoiceStem \o <<" ", "0", "0", "0", "4", "2">>, Ord9,
         <<"1", "2", "3", ",", "4", "5">>)

SampleSender == <<"b", "i", "l", "l", "i", "n", "g", "@", "a", "c", "m", "e", ".", "f", "r">>

PdfBasename == <<"i", "n", "v", "o", "i", "c", "e", ".", "p", "d", "f">>

InitCompose ==
    /\ pc = "call"
    /\ info = SampleInfo
    /\ subject_template \in Templates
    /\ body_template \in Templates
    /\ recipients = <<GoodA.s, GoodC.s>>
    /\ msg = NoMessage
    /\ error = NoError
    /\ text = <<>>
    /\ fields = NoDocument
    /\ parser_name = NoName
    /\ parser = "None"
    /\ AVAILABLE_PARSERS = RegisteredParsers
    /\ ncalls = 0
    /\ order_number = <<>>
    /\ mapping = MissingFile
    /\ entries = <<>>
    /\ dry_run = FALSE
    /\ answer = <<>>
    /\ calls = <<>>
    /\ sent = 0
    /\ exit_code = -1

\* one call of create_email_message; the PDF can be opened or not
CreateEmailMessage ==
    /\ pc = "call"
    /\ \E pdf_exists \in BOOLEAN :
          LET r == create_email_message(info, SampleSender, subject_template,
                                        body_template, recipients,
                                        [exists |-> pdf_exists, basename |-> PdfBasename])
          IN  /\ msg' = r.value
              /\ error' = r.raised
    /\ pc' = "return"
    /\ UNCHANGED <<subject_template, body_template, recipients>>
    /\ UNCHANGED <<parseVars, registryVars, order_number, mapping, entries, mainVars>>

NextCompose == CreateEmailMessage

SpecCompose == InitCompose /\ [][NextCompose]_vars

SubstitutionErrors == {"KeyError", "IndexError"}

\* C7: the subject template may use invoice_number only and the body template
\* invoice_number, order_number and total_ttc; templates that use only these
\* never fail on substitution, and a template with any other replacement
\* field makes create_email_message raise (KeyError for a named field,
\* IndexError for the unnamed one) and return no message.
C7_AcceptedPlaceholders ==
    pc = "return" =>
        IF /\ NamesOf(subject_template) \subseteq {"invoice_number"}
           /\ NamesOf(body_template) \subseteq {"invoice_number", "order_number", "total_ttc"}
           /\ ~HasAuto(subject_template) /\ ~HasAuto(body_template)
        THEN /\ error.exc \notin SubstitutionErrors
             /\ error = NoError <=> msg.kind = "MIMEMultipart"
        ELSE /\ error.exc \in SubstitutionErrors
             /\ msg = NoMessage

C7_Witness ==
    /\ pc = "return"
    /\ NamesOf(subject_template) = {"order_number"}
    /\ NamesOf(body_template) = {"invoice_number", "total_ttc"}
    /\ error = Err("KeyError", "order_number")
    /\ msg = NoMessage

\* C7 as stated: subject and body both accept the three fields of the record
\* (the total amount being total_ttc), and a template using only those never
\* fails on substitution, while any other placeholder makes compose fail.
C7_ThreeNamesInBoth ==
    pc = "return" =>
        IF /\ NamesOf(subject_template) \cup NamesOf(body_template)
                  \subseteq {"invoice_number", "order_number", "total_ttc"}
           /\ ~HasAuto(subject_template) /\ ~HasAuto(body_template)
        THEN error.exc \notin SubstitutionErrors
        ELSE error.exc \in SubstitutionErrors /\ msg = NoMessage

----------------------------------------------------------------------------
(* invoiceSender.py: main *)

\* the documents main is run on: a complete one, one without an order
\* number, one whose total holds no amount
MainDocuments ==
    {d \in Documents :
        /\ d.layout = "invoice first"
        /\ d.inv.kind = "ok" /\ d.inv.ws = <<" ">> /\ d.inv.gap = <<" ">>
        /\ d.inv.digits = <<"0", "0", "0", "4", "2">>
        /\ \/ /\ d.ord.value = Ord9
              /\ d.ttc.chars \in {TtcLabel \o <<" ">> \o Qualifier
                                      \o <<" ", "1", "2", "3", ",", "4", "5", " ", "€">>,
                                  TtcLabel \o <<" ", " ", "€">>}
           \/ /\ d.ord.chars = <<>>
              /\ d.ttc.value = <<"1", "2", "3", ",", "4", "5">>}

\* the mapping files main is run on
MainMappings ==
    {<<>>,
     <<[kind |-> "entry", key |-> Ord9, list |-> [cands |-> <<GoodA>>, spaced |-> FALSE]]>>,
     <<[kind |-> "entry", key |-> Ord9, list |-> [cands |-> <<BadEmail>>, spaced |-> TRUE]]>>}

MainSubjects == {<<FieldPiece("invoice_number")>>, <<FieldPiece("order_number")>>}

MainBodies ==
    {<<FieldPiece("order_number"), TextPiece(<<" ">>), FieldPiece("total_ttc")>>,
     <<FieldPiece("customer")>>}

\* what input() gives at the prompt: a line, or end of file; yes says the
\* line was written as y or Y with nothing but whitespace around it
Answers ==
    {[eof |-> FALSE, yes |-> TRUE, s |-> <<"y">>],
     [eof |-> FALSE, yes |-> TRUE, s |-> <<"Y">>],
     [eof |-> FALSE, yes |-> TRUE, s |-> <<" ", "Y", "\t">>],
     [eof |-> FALSE, yes |-> FALSE, s |-> <<"y", "e", "s">>],
     [eof |-> FALSE, yes |-> FALSE, s |-> <<"n">>],
     [eof |-> FALSE, yes |-> FALSE, s |-> <<>>],
     [eof |-> TRUE, yes |-> FALSE, s |-> <<>>]}

\* the choices of --parser, AVAILABLE_PARSERS.keys()
ParserChoices == {Name(RegisteredParsers[i].key) : i \in DOMAIN RegisteredParsers}

InitMain ==
    /\ pc = "extract_text_from_pdf"
    /\ fields \in MainDocuments
    /\ text = <<>>
    /\ parser_name \in ParserChoices
    /\ parser = "None"
    /\ info = Unset
    /\ error = NoError
    /\ AVAILABLE_PARSERS = RegisteredParsers
    /\ ncalls = 0
    /\ order_number = <<>>
    /\ \/ /\ entries \in MainMappings
          /\ mapping = MappingFile(entries)
       \/ /\ entries = <<>>
          /\ mapping = MissingFile
    /\ recipients = <<>>
    /\ subject_template \in MainSubjects
    /\ body_template \in MainBodies
    /\ msg = NoMessage
    /\ dry_run \in BOOLEAN
    /\ answer \in Answers
    /\ calls = <<>>
    /\ sent = 0
    /\ exit_code = -1

\* an exception reaches one of main's except clauses: it is logged and the
\* process exits with status 1
Fail(e) ==
    /\ error' = e
    /\ exit_code' = 1
    /\ pc' = "exited"

\* main returns: the process exits with status 0
Return ==
    /\ exit_code' = 0
    /\ pc' = "exited"

\* text = extract_text_from_pdf(args.pdf): the reader gives the text or fails
MainReadPdf ==
    /\ pc = "extract_text_from_pdf"
    /\ calls' = Append(calls, "extract_text_from_pdf")
    /\ \E readable \in BOOLEAN :
          IF readable
          THEN /\ text' = RenderText(fields)
               /\ pc' = "extract_invoice_info"
               /\ UNCHANGED <<error, exit_code>>
          ELSE /\ Fail(Err("ValueError", "Error reading PDF file"))
               /\ UNCHANGED text
    /\ UNCHANGED <<fields, parser_name, info, registryVars, recipientVars, composeVars,
                   dry_run, answer, sent>>

\* info = extract_invoice_info(text, args.parser)
MainExtract ==
    /\ pc = "extract_invoice_info"
    /\ calls' = Append(calls, "extract_invoice_info")
    /\ LET r == extract_invoice_info(text, parser_name, AVAILABLE_PARSERS)
       IN  IF r.raised = NoError
           THEN /\ info' = r.value
                /\ pc' = "load_mail_config"
                /\ UNCHANGED <<error, exit_code>>
           ELSE /\ Fail(r.raised)
                /\ UNCHANGED info
    /\ UNCHANGED <<text, fields, parser_name, registryVars, recipientVars, composeVars,
                   dry_run, answer, sent>>

\* load_mail_config(args.mail_config): the file gives the settings or fails
MainLoadConfig ==
    /\ pc = "load_mail_config"
    /\ calls' = Append(calls, "load_mail_config")
    /\ \E readable \in BOOLEAN :
          IF readable
          THEN /\ pc' = "get_recipients"
               /\ UNCHANGED <<error, exit_code>>
          ELSE Fail(Err("ValueError", "Error reading mail configuration"))
    /\ UNCHANGED <<parseVars, registryVars, recipientVars, composeVars,
                   dry_run, answer, sent>>

\* recipients = get_recipients(info['order_number'], args.map): the argument
\* is evaluated first, and subscripting None raises TypeError before the call
MainGetRecipients ==
    /\ pc = "get_recipients"
    /\ IF info.kind = "None"
       THEN /\ Fail(Err("TypeError", "'NoneType' object is not subscriptable"))
            /\ UNCHANGED <<calls, order_number, recipients>>
       ELSE /\ calls' = Append(calls, "get_recipients")
            /\ order_number' = info.order_number
            /\ LET r == get_recipients(info.order_number, mapping)
               IN  IF r.raised = NoError
                   THEN /\ recipients' = r.value
                        /\ pc' = "create_email_message"
                        /\ UNCHANGED <<error, exit_code>>
                   ELSE /\ Fail(r.raised)
                        /\ UNCHANGED recipients
    /\ UNCHANGED <<parseVars, registryVars, mapping, entries, composeVars,
                   dry_run, answer, sent>>

\* msg = create_email_message(...): the PDF can be opened again or not
MainCreateMessage ==
    /\ pc = "create_email_message"
    /\ calls' = Append(calls, "create_email_message")
    /\ \E pdf_exists \in BOOLEAN :
          LET r == create_email_message(info, SampleSender, subject_template,
                                        body_template, recipients,
                                        [exists |-> pdf_exists, basename |-> PdfBasename])
          IN  IF r.raised = NoError
              THEN /\ msg' = r.value
                   /\ pc' = "display_email"
                   /\ UNCHANGED <<error, exit_code>>
              ELSE /\ Fail(r.raised)
                   /\ UNCHANGED msg
    /\ UNCHANGED <<parseVars, registryVars, recipientVars, subject_template,
                   body_template, dry_run, answer, sent>>

\* display_email(msg, recipients), then the dry-run branch: main returns
\* without sending, or goes on to the prompt
MainDisplay ==
    /\ pc = "display_email"
    /\ calls' = Append(calls, "display_email")
    /\ IF dry_run
       THEN Return
       ELSE /\ pc' = "input"
            /\ UNCHANGED exit_code
    /\ UNCHANGED <<parseVars, registryVars, recipientVars, composeVars, error,
                   dry_run, answer, sent>>

\* a faulty variant: any answer that starts with y is a confirmation
MainConfirm_Prefix ==
    /\ pc = "input"
    /\ calls' = Append(calls, "input")
    /\ IF answer.eof
       THEN Fail(Err("EOFError", "EOF when reading a line"))
       ELSE IF ~StartsWith(StrLower(Strip(answer.s)), <<"y">>)
       THEN Return /\ UNCHANGED error
       ELSE /\ pc' = "send_email_smtp"
            /\ UNCHANGED <<error, exit_code>>
    /\ UNCHANGED <<parseVars, registryVars, recipientVars, composeVars,
                   dry_run, answer, sent>>

\* confirm = input(...).strip().lower(); anything but 'y' cancels
MainConfirm ==
    /\ pc = "input"
    /\ calls' = Append(calls, "input")
    /\ IF answer.eof
       THEN Fail(Err("EOFError", "EOF when reading a line"))
       ELSE IF StrLower(Strip(answer.s)) # <<"y">>
       THEN Return /\ UNCHANGED error
       ELSE /\ pc' = "send_email_smtp"
            /\ UNCHANGED <<error, exit_code>>
    /\ UNCHANGED <<parseVars, registryVars, recipientVars, composeVars,
                   dry_run, answer, sent>>

\* a faulty variant: a failed send is tried again
MainSend_Retry ==
    /\ pc = "send_email_smtp"
    /\ Len(calls) < 12
    /\ calls' = Append(calls, "send_email_smtp")
    /\ \E outcome \in {"ok", "SMTPException", "OSError"} :
          CASE outcome = "ok" ->
                 /\ sent' = sent + 1
                 /\ Return
                 /\ UNCHANGED error
            [] outcome = "SMTPException" ->
                 /\ UNCHANGED <<pc, sent, error, exit_code>>
            [] outcome = "OSError" ->
                 /\ Fail(Err("OSError", "connection failed"))
                 /\ UNCHANGED sent
    /\ UNCHANGED <<parseVars, registryVars, recipientVars, composeVars,
                   dry_run, answer>>

\* send_email_smtp(...): the transport accepts the message, fails with an
\* SMTPException (raised again as ValueError) or with another exception
MainSend ==
    /\ pc = "send_email_smtp"
    /\ calls' = Append(calls, "send_email_smtp")
    /\ \E outcome \in {"ok", "SMTPException", "OSError"} :
          CASE outcome = "ok" ->
                 /\ sent' = sent + 1
                 /\ Return
                 /\ UNCHANGED error
            [] outcome = "SMTPException" ->
                 /\ Fail(Err("ValueError", "Failed to send email"))
                 /\ UNCHANGED sent
            [] outcome = "OSError" ->
                 /\ Fail(Err("OSError", "connection failed"))
                 /\ UNCHANGED sent
    /\ UNCHANGED <<parseVars, registryVars, recipientVars, composeVars,
                   dry_run, answer>>

NextMain ==
    \/ MainReadPdf
    \/ MainExtract
    \/ MainLoadConfig
    \/ MainGetRecipients
    \/ MainCreateMessage
    \/ MainDisplay
    \/ MainConfirm
    \/ MainSend

SpecMain == InitMain /\ [][NextMain]_vars

\* the calls of main's try block, in program order
Stages ==
    <<"extract_text_from_pdf", "extract_invoice_info", "load_mail_config",
      "get_recipients", "create_email_message", "display_email", "input",
      "send_email_smtp">>

Called(stage) == \E i \in DOMAIN calls : calls[i] = stage

\* C5: in one run of main the stages are called at most once each and in
\* program order; the send is called only after document read, extraction,
\* recipient resolution and composition have all succeeded; once a stage has
\* failed the run is over with exit status 1, no message sent and no further
\* step to take.
C5_FailFastPipeline ==
    /\ Len(calls) <= Len(Stages)
    /\ \A i \in DOMAIN calls : calls[i] = Stages[i]
    /\ Called("send_email_smtp") =>
          /\ Called("extract_text_from_pdf") /\ Called("extract_invoice_info")
          /\ Called("get_recipients") /\ Called("create_email_message")
          /\ info.kind = "dict" /\ recipients # <<>> /\ msg.kind = "MIMEMultipart"
    /\ error # NoError => pc = "exited" /\ exit_code = 1 /\ sent = 0
    /\ pc = "exited" => ~ENABLED NextMain
    /\ sent <= 1

C5_Witness ==
    /\ pc = "exited"
    /\ calls = <<"extract_text_from_pdf", "extract_invoice_info", "load_mail_config",
                 "get_recipients">>
    /\ error = NoRecipientsErr(Ord9)
    /\ exit_code = 1
    /\ sent = 0

\* C6: a run with the alternate strategy, whose extraction returns no usable
\* fields, ends at the extraction stage with the IncompleteExtraction error,
\* before recipient resolution, and not in the unexpected-error path (stated
\* for the runs in which the document and the mail configuration are read).
C6_IncompleteExtractionRaised ==
    /\ pc = "exited" /\ parser_name = Name(AlternateName)
    /\ Called("extract_invoice_info")
    /\ error # Err("ValueError", "Error reading mail configuration")
    =>
        /\ calls[Len(calls)] = "extract_invoice_info"
        /\ error.msg = "IncompleteExtraction"
        /\ error.exc = "ValueError"

====
